---- MODULE Spec2Model ----
(***************************************************************************)
(* Model of the long-tasks audit of Lighthouse                             *)
(* (lighthouse-core/audits/long-tasks.js): the selection of the long       *)
(* top-level main-thread tasks, their attribution to a URL, and the        *)
(* product (score, table rows, display value) the audit returns.           *)
(*                                                                         *)
(* JavaScript values that may be undefined are modelled as sequences of    *)
(* length at most one: <<>> is undefined, <<v>> is the value v.            *)
(* An array of task objects is a sequence of task records; the arrays the  *)
(* audit derives from it (filter, sort, slice) hold references, modelled   *)
(* as indices into the input array.                                        *)
(***************************************************************************)
EXTENDS Integers, Sequences, FiniteSets, TLC

VARIABLES
  tasks,      \* the task array MainThreadTasks.request resolves to
  version,    \* the form of LongTasks.audit the run has loaded
  inflight,   \* how many audit calls are suspended at each of the two awaits
  tasksRead,  \* [...tasks] of the call that returned last: the array as it read it
  appended,   \* how many tasks were appended to the generated trace
  networkRecords, \* the network records of the run (NetworkRecords.request)
  settings,   \* context.settings of the audit calls, or undefined
  jsURLs,     \* the set of script URLs (BootupTime.getJavaScriptURLs)
  longtasks,  \* the local array of selected task references of that call
  product,    \* what the call of LongTasks.audit that returned last returned
  attributed, \* what a direct call of getAttributableURLForTask returned
  pc          \* "trace": no call has returned; "audited", "auditedSortFirst",
              \* "attributed": which function returned last

vars == <<tasks, version, inflight, tasksRead, appended, networkRecords, settings, jsURLs,
          longtasks, product, attributed, pc>>

----------------------------------------------------------------------------
(* Bounds of the model *)

\* Largest count handed to generateTraceWithLongTasks.
MaxCount == 21

\* Number of further tasks appended one by one to a generated trace.
MaxExtra == 2

\* Number of audit calls in flight at a time.
MaxCalls == 2

\* Longest attributableURLs list of a task handed to getAttributableURLForTask.
MaxURLs == 3

----------------------------------------------------------------------------
(* Program constants *)

\* t.duration >= 50
LongTaskThreshold == 50

\* .slice(0, 20)
MaxLongTasks == 20

\* const baseTs = 1000
baseTs == 1000

TASK_URL == "https://pwa.rocks/"

SCRIPT_URL == "https://pwa.rocks/script.js"

ABOUT_BLANK == "about:blank"

BROWSER_TASK_NAMES_SET == {"CpuProfiler::StartProfiling"}

BROWSER_GC_TASK_NAMES_SET == {"V8.GCCompactor", "MajorGC", "MinorGC"}

\* The ICU message UIStrings.displayValue: a plural on itemCount, each case a
\* selector and the parts of its text ("#" stands for the formatted count).
UIStrings_displayValue ==
  << [selector |-> "=1",    parts |-> <<"1 long task found">>],
     [selector |-> "other", parts |-> <<"#", " long tasks found">>] >>

----------------------------------------------------------------------------
(* JavaScript values *)

Undefined == <<>>

\* ToBoolean of a string or undefined: undefined and "" are falsy.
TruthyString(v) == v # Undefined /\ v[1] # ""

\* ToBoolean of a boolean or undefined.
TruthyBoolean(v) == v = <<TRUE>>

\* ToBoolean of an object reference or undefined.
TruthyObject(v) == v # Undefined

\* a || b on strings
OrElse(a, b) == IF TruthyString(a) THEN a ELSE b

\* obj[key] of a plain object: undefined when the object has no such key.
Get(obj, key) == IF key \in DOMAIN obj THEN <<obj[key]>> ELSE Undefined

----------------------------------------------------------------------------
(* Arrays *)

Range(s) == {s[i] : i \in DOMAIN s}

Last(s) == s[Len(s)]

Front(s) == SubSeq(s, 1, Len(s) - 1)

\* Array.prototype.slice(from, to) with 0 <= from <= to.
ArraySlice(arr, from, to) ==
  LET hi == IF to < Len(arr) THEN to ELSE Len(arr)
  IN  IF from >= hi THEN <<>> ELSE SubSeq(arr, from + 1, hi)

----------------------------------------------------------------------------
(* Arrays and sets as objects: what a call returns and what it leaves behind *)

\* The arrays a statement works on: heap[a] is the content of array a, a sequence
\* of task references, and ref is the array the last call of the chain returned.
\* The array `tasks` is array 1, holding the references 1..Len(ts) in order.
InputArray == 1

HeapOf(ts) == [heap |-> << [i \in 1..Len(ts) |-> i] >>, ref |-> InputArray]

\* A call that returns a new array with the given content.
NewArray(st, content) ==
  [heap |-> Append(st.heap, content), ref |-> Len(st.heap) + 1]

\* Mutant of ArraySpread: the array itself instead of a copy of it.
ArraySpread_alias(st) == st

\* [...arr]: a new array with the elements of arr.
ArraySpread(st) == NewArray(st, st.heap[st.ref])

\* Mutant of SetHas: Set.prototype.delete, which tells the same and removes.
SetHas_delete(set, x) == [value |-> x \in set, set |-> set \ {x}]

\* set.has(x): tells whether x is a member; the set stays as it is.
SetHas(set, x) == [value |-> x \in set, set |-> set]

\* arr[0]: the first element or undefined; the array stays as it is.
ArrayFirst(arr) ==
  [value |-> IF arr = <<>> THEN Undefined ELSE <<arr[1]>>, array |-> arr]

----------------------------------------------------------------------------
(* Attribution: getAttributableURLForTask *)

\* Mutant of FindJsURL: the last known-script URL instead of the first.
RECURSIVE FindJsURL_last(_, _)
FindJsURL_last(attributableURLs, urls) ==
  IF attributableURLs = <<>> THEN Undefined
  ELSE IF Last(attributableURLs) \in urls THEN <<Last(attributableURLs)>>
  ELSE FindJsURL_last(Front(attributableURLs), urls)

\* task.attributableURLs.find(url => jsURLs.has(url)): the callback is called on
\* the elements in order until it returns true; value is what find returns, set
\* is the set after the calls of has.
RECURSIVE FindJsURLCall(_, _)
FindJsURLCall(attributableURLs, urls) ==
  IF attributableURLs = <<>> THEN [value |-> Undefined, set |-> urls]
  ELSE LET has == SetHas(urls, Head(attributableURLs))
       IN  IF has.value THEN [value |-> <<Head(attributableURLs)>>, set |-> has.set]
           ELSE FindJsURLCall(Tail(attributableURLs), has.set)

FindJsURL(attributableURLs, urls) == FindJsURLCall(attributableURLs, urls).value

\* task.attributableURLs[0]
FallbackURL(attributableURLs) == ArrayFirst(attributableURLs).value

\* Mutant of BrowserLabel: garbage collection is not told from other overhead.
BrowserLabel_gcAsBrowser(eventName) ==
  IF eventName \in BROWSER_TASK_NAMES_SET \cup BROWSER_GC_TASK_NAMES_SET THEN "Browser"
  ELSE "Unattributable"

\* The label for execution no URL is responsible for, by the kind of work.
BrowserLabel(eventName) ==
  IF eventName \in BROWSER_TASK_NAMES_SET THEN "Browser"
  ELSE IF eventName \in BROWSER_GC_TASK_NAMES_SET THEN "Browser GC"
  ELSE "Unattributable"

\* Mutant of getAttributableURLForTask: about:blank is not set aside.
getAttributableURLForTask_keepsBlank(task, urls) ==
  LET jsURL == FindJsURL(task.attributableURLs, urls)
      fallbackURL == FallbackURL(task.attributableURLs)
      attributableURL == OrElse(jsURL, fallbackURL)
  IN  IF ~TruthyString(attributableURL)
      THEN BrowserLabel(task.event.name)
      ELSE attributableURL[1]

getAttributableURLForTask(task, urls) ==
  LET jsURL == FindJsURL(task.attributableURLs, urls)
      fallbackURL == FallbackURL(task.attributableURLs)
      attributableURL == OrElse(jsURL, fallbackURL)
  IN  IF ~TruthyString(attributableURL) \/ attributableURL = <<ABOUT_BLANK>>
      THEN BrowserLabel(task.event.name)
      ELSE attributableURL[1]

\* The arguments of getAttributableURLForTask after the call: the task, whose
\* attributableURLs went through find and [0], and the set, which went through
\* the calls of has. The function assigns to no field and to its local
\* variables only.
InputsAfterAttribution(task, urls) ==
  [task   |-> [task EXCEPT !.attributableURLs = ArrayFirst(@).array],
   jsURLs |-> FindJsURLCall(task.attributableURLs, urls).set]

\* getJavaScriptURLs: the URLs of the records whose resource type is Script.
getJavaScriptURLs(records) ==
  {records[i].url : i \in {j \in DOMAIN records : records[j].resourceType = "Script"}}

----------------------------------------------------------------------------
(* Selection: filter, sort, slice *)

\* Mutant of IsLongTask: nested tasks are not excluded.
IsLongTask_anyParent(t) ==
  /\ t.duration >= LongTaskThreshold
  /\ ~TruthyBoolean(t.unbounded)

\* t => t.duration >= 50 && !t.unbounded && !t.parent
IsLongTask(t) ==
  /\ t.duration >= LongTaskThreshold
  /\ ~TruthyBoolean(t.unbounded)
  /\ ~TruthyObject(t.parent)

\* The content of the array that .filter(IsLongTask) returns: the references
\* kept, in the order of the array filtered.
FilterLongTasks(ts, refs) == SelectSeq(refs, LAMBDA i : IsLongTask(ts[i]))

\* Mutant of compareFn: ascending.
compareFn_ascending(a, b) == a.duration - b.duration

\* (a, b) => b.duration - a.duration
compareFn(a, b) == b.duration - a.duration

\* Mutant of InsertSorted: an unstable sort, which reverses equal elements.
RECURSIVE InsertSorted_tiesReversed(_, _, _)
InsertSorted_tiesReversed(ts, x, sorted) ==
  IF sorted = <<>> THEN <<x>>
  ELSE IF compareFn(ts[x], ts[Head(sorted)]) <= 0 THEN <<x>> \o sorted
  ELSE <<Head(sorted)>> \o InsertSorted_tiesReversed(ts, x, Tail(sorted))

\* One step of the stable sort: reference x goes behind every element it need
\* not precede, that is, in front of the first y with compareFn(x, y) < 0.
RECURSIVE InsertSorted(_, _, _)
InsertSorted(ts, x, sorted) ==
  IF sorted = <<>> THEN <<x>>
  ELSE IF compareFn(ts[x], ts[Head(sorted)]) < 0 THEN <<x>> \o sorted
  ELSE <<Head(sorted)>> \o InsertSorted(ts, x, Tail(sorted))

\* .sort(compareFn) on an array of references: Array.prototype.sort is stable.
RECURSIVE ArraySort(_, _)
ArraySort(ts, refs) ==
  IF refs = <<>> THEN <<>>
  ELSE InsertSorted(ts, refs[Len(refs)], ArraySort(ts, SubSeq(refs, 1, Len(refs) - 1)))

\* arr.filter(IsLongTask): a new array.
ArrayFilter(ts, st) == NewArray(st, FilterLongTasks(ts, st.heap[st.ref]))

\* arr.sort(compareFn): sorts arr itself and returns it.
ArraySortInPlace(ts, st) == [st EXCEPT !.heap[st.ref] = ArraySort(ts, @)]

\* arr.slice(0, 20): a new array.
ArraySliceCall(st) == NewArray(st, ArraySlice(st.heap[st.ref], 0, MaxLongTasks))

\* Mutant of SelectLongTasks: truncated before it is sorted.
SelectLongTasks_sliceFirst(ts) ==
  ArraySort(ts, ArraySlice(FilterLongTasks(ts, [i \in 1..Len(ts) |-> i]), 0, MaxLongTasks))

\* [...tasks].filter(...).sort(...).slice(0, 20), call by call: the arrays after
\* the statement, ref being the array it evaluates to.
LongTasksStatement(ts) ==
  ArraySliceCall(ArraySortInPlace(ts, ArrayFilter(ts, ArraySpread(HeapOf(ts)))))

\* const longtasks = [...tasks].filter(...).sort(...).slice(0, 20)
SelectLongTasks(ts) ==
  LET st == LongTasksStatement(ts) IN st.heap[st.ref]

\* t => t.duration >= 50 && t.unbounded === false && !t.parent
IsLongTaskStrict(t) ==
  /\ t.duration >= LongTaskThreshold
  /\ t.unbounded = <<FALSE>>
  /\ ~TruthyObject(t.parent)

FilterLongTasksStrict(ts, refs) == SelectSeq(refs, LAMBDA i : IsLongTaskStrict(ts[i]))

\* arr.filter(IsLongTaskStrict): a new array.
ArrayFilterStrict(ts, st) == NewArray(st, FilterLongTasksStrict(ts, st.heap[st.ref]))

\* Mutant of SelectLongTasksSortFirst: truncated before it is filtered.
SelectLongTasksSortFirst_sliceBeforeFilter(ts) ==
  FilterLongTasksStrict(ts,
    ArraySlice(ArraySort(ts, [i \in 1..Len(ts) |-> i]), 0, MaxLongTasks))

\* [...tasks].sort(...).filter(...).slice(0, 20), call by call.
LongTasksStatementSortFirst(ts) ==
  ArraySliceCall(ArrayFilterStrict(ts, ArraySortInPlace(ts, ArraySpread(HeapOf(ts)))))

\* const longtasks = [...tasks].sort(...).filter(...).slice(0, 20)
SelectLongTasksSortFirst(ts) ==
  LET st == LongTasksStatementSortFirst(ts) IN st.heap[st.ref]

----------------------------------------------------------------------------
(* Report assembly *)

\* longtasks.map(task => ({url, group, start, self, duration}))
Row(task, urls) ==
  [url      |-> getAttributableURLForTask(task, urls),
   group    |-> task.group.label,
   start    |-> task.startTime,
   self     |-> task.selfTime,
   duration |-> task.duration]

Results(ts, refs, urls) == [k \in DOMAIN refs |-> Row(ts[refs[k]], urls)]

\* The task objects and the script URL set after longtasks.map(...): the
\* callback calls getAttributableURLForTask(task, jsURLs) on each task in turn,
\* and reads the other fields.
RECURSIVE InputsAfterMap(_, _, _)
InputsAfterMap(ts, refs, urls) ==
  IF refs = <<>> THEN [tasks |-> ts, jsURLs |-> urls]
  ELSE LET after == InputsAfterAttribution(ts[Head(refs)], urls)
       IN  InputsAfterMap([ts EXCEPT ![Head(refs)] = after.task], Tail(refs),
                          after.jsURLs)

\* The array `tasks` after the audit: the references array 1 holds after the
\* statement st, each with its task as the map left it.
TasksAfter(st, objects) ==
  [k \in DOMAIN st.heap[InputArray] |-> objects[st.heap[InputArray][k]]]

\* Mutant of SelectPlural: the exact cases are ignored.
SelectPlural_otherOnly(message, n) ==
  CHOOSE c \in Range(message) : c.selector = "other"

\* The case of an ICU plural message that applies to n: an exact "=n" case
\* wins over the plural category, and the only category given is "other".
SelectPlural(message, n) ==
  LET exact == SelectSeq(message, LAMBDA c : c.selector = "=" \o ToString(n))
  IN  IF exact # <<>> THEN exact[1]
      ELSE CHOOSE c \in Range(message) : c.selector = "other"

\* The text of a case: its parts joined, "#" replaced by the count.
RECURSIVE FormatParts(_, _)
FormatParts(parts, n) ==
  IF parts = <<>> THEN ""
  ELSE (IF Head(parts) = "#" THEN ToString(n) ELSE Head(parts))
         \o FormatParts(Tail(parts), n)

\* str_(UIStrings.displayValue, {itemCount}) as the display string it renders to.
str_displayValue(itemCount) ==
  FormatParts(SelectPlural(UIStrings_displayValue, itemCount).parts, itemCount)

\* let displayValue; if (results.length > 0) displayValue = str_(...)
DisplayValue(results) ==
  IF Len(results) > 0 THEN <<str_displayValue(Len(results))>> ELSE Undefined

\* return {score: 1, details: tableDetails, displayValue}
AuditProduct(results) ==
  [score        |-> 1,
   details      |-> [type |-> "table", items |-> results],
   displayValue |-> DisplayValue(results)]

----------------------------------------------------------------------------
(* Inputs *)

\* A task node as MainThreadTasks.request yields it.
TaskNode(ts, duration, parent, unbounded, attributableURLs, eventName) ==
  [startTime        |-> ts,
   duration         |-> duration,
   selfTime         |-> duration,
   parent           |-> parent,
   unbounded        |-> unbounded,
   attributableURLs |-> attributableURLs,
   event            |-> [name |-> eventName],
   group            |-> [label |-> "Other"]]

\* generateTraceWithLongTasks(count, withUrl, duration), as the task array the
\* trace resolves to: count top-level bounded tasks, task i starting at baseTs * i.
generateTraceWithLongTasks(count, withUrl, duration) ==
  [i \in 1..count |->
     TaskNode(baseTs * i, duration, Undefined, <<FALSE>>,
              IF withUrl THEN <<TASK_URL>> ELSE <<>>, "RunTask")]

\* The calls of the generator. Those of the tests, with the defaults
\* withUrl = false and duration = 200 written out: generateTraceWithLongTasks(1, true),
\* generateTraceWithLongTasks(4) and generateTraceWithLongTasks(4, false, 45).
\* And calls with counts around the cap of 20 rows, of tasks of 100 ms with a URL.
GenCalls ==
  { [count |-> 1, withUrl |-> TRUE,  duration |-> 200],
    [count |-> 4, withUrl |-> FALSE, duration |-> 200],
    [count |-> 4, withUrl |-> FALSE, duration |-> 45] }
  \cup { [count |-> c, withUrl |-> TRUE, duration |-> 100] :
           c \in (MaxCount - 2)..MaxCount }

\* The kinds of task appended one by one: top-level bounded tasks below, at and
\* above the threshold, and long tasks that are nested, unbounded, or carry no
\* unbounded flag at all.
ExtraKinds ==
  { [duration |-> 30,  nested |-> FALSE, unbounded |-> <<FALSE>>],
    [duration |-> 50,  nested |-> FALSE, unbounded |-> <<FALSE>>],
    [duration |-> 200, nested |-> FALSE, unbounded |-> <<FALSE>>],
    [duration |-> 200, nested |-> TRUE,  unbounded |-> <<FALSE>>],
    [duration |-> 200, nested |-> FALSE, unbounded |-> <<TRUE>>],
    [duration |-> 200, nested |-> FALSE, unbounded |-> Undefined] }

\* context.settings: absent, or simulated throttling with a CPU slowdown.
SettingsChoices ==
  { Undefined,
    <<[throttlingMethod |-> "simulate",
       throttling |-> [cpuSlowdownMultiplier |-> 2]]>> }

\* The network records of the page: its document and one script.
NetworkRecordChoices ==
  { << [url |-> TASK_URL,   resourceType |-> "Document"],
       [url |-> SCRIPT_URL, resourceType |-> "Script"] >> }

\* URLs a task's attributableURLs and the script set are drawn from.
URLs == {"", ABOUT_BLANK, TASK_URL, SCRIPT_URL}

EventNames == BROWSER_TASK_NAMES_SET \cup BROWSER_GC_TASK_NAMES_SET \cup {"RunTask"}

RECURSIVE SeqsUpTo(_, _)
SeqsUpTo(S, n) ==
  IF n = 0 THEN {<<>>}
  ELSE LET shorter == SeqsUpTo(S, n - 1)
       IN  shorter \cup {Append(s, x) : s \in {q \in shorter : Len(q) = n - 1}, x \in S}

----------------------------------------------------------------------------
(* The audit as a state machine.  LongTasks.audit is an async function: a   *)
(* call runs to its first await (MainThreadTasks.request), is resumed with  *)
(* the task array and runs to its second await (NetworkRecords.request),    *)
(* and is resumed again to read the array and return.  While calls are      *)
(* suspended other callbacks run: further calls of the audit, and callbacks *)
(* that append to the task array the computed artifact holds.               *)

NoCalls == [awaitTasks |-> 0, awaitRecords |-> 0]

Init ==
  /\ tasks = <<>>
  /\ version = "filterFirst"
  /\ inflight = NoCalls
  /\ tasksRead = <<>>
  /\ appended = 0
  /\ networkRecords \in NetworkRecordChoices
  /\ settings \in SettingsChoices
  /\ jsURLs = {}
  /\ longtasks = <<>>
  /\ product = Undefined
  /\ attributed = Undefined
  /\ pc = "trace"

\* The trace is generated while no call is suspended: the generator builds a
\* new array, and a suspended call keeps the array of the trace it was called
\* with, so only the calls made afterwards read the generated tasks.
GenerateTrace ==
  /\ tasks = <<>>
  /\ appended = 0
  /\ inflight = NoCalls
  /\ \E g \in GenCalls :
       tasks' = generateTraceWithLongTasks(g.count, g.withUrl, g.duration)
  /\ UNCHANGED <<version, inflight, tasksRead, appended, networkRecords, settings, jsURLs,
                 longtasks, product, attributed, pc>>

AppendTask ==
  /\ appended < MaxExtra
  /\ \E k \in ExtraKinds :
       /\ k.nested => tasks # <<>>
       /\ tasks' = Append(tasks,
            TaskNode(baseTs * (Len(tasks) + 1), k.duration,
                     IF k.nested THEN <<Len(tasks)>> ELSE Undefined,
                     k.unbounded, <<>>, "RunTask"))
  /\ appended' = appended + 1
  /\ UNCHANGED <<version, inflight, tasksRead, networkRecords, settings, jsURLs, longtasks,
                 product, attributed, pc>>

\* LongTasks.audit(artifacts, context) is called and suspends at
\* await MainThreadTasks.request(trace, context).
AuditCall ==
  /\ inflight.awaitTasks + inflight.awaitRecords < MaxCalls
  /\ inflight' = [inflight EXCEPT !.awaitTasks = @ + 1]
  /\ UNCHANGED <<tasks, version, tasksRead, appended, networkRecords, settings, jsURLs,
                 longtasks, product, attributed, pc>>

\* A call is resumed with the task array and suspends at
\* await NetworkRecords.request(devtoolsLog, context).
AuditAwaitRecords ==
  /\ inflight.awaitTasks > 0
  /\ inflight' = [awaitTasks   |-> inflight.awaitTasks - 1,
                  awaitRecords |-> inflight.awaitRecords + 1]
  /\ UNCHANGED <<tasks, version, tasksRead, appended, networkRecords, settings, jsURLs,
                 longtasks, product, attributed, pc>>

\* A call is resumed with the network records, reads the task array as it is
\* now, and returns its product.
Audit ==
  /\ version = "filterFirst"
  /\ inflight.awaitRecords > 0
  /\ inflight' = [inflight EXCEPT !.awaitRecords = @ - 1]
  /\ LET urls == getJavaScriptURLs(networkRecords)
         selected == SelectLongTasks(tasks)
         results == Results(tasks, selected, urls)
         after == InputsAfterMap(tasks, selected, urls)
     IN  /\ jsURLs' = after.jsURLs
         /\ tasksRead' = tasks
         /\ tasks' = TasksAfter(LongTasksStatement(tasks), after.tasks)
         /\ longtasks' = selected
         /\ product' = AuditProduct(results)
  /\ pc' = "audited"
  /\ UNCHANGED <<version, appended, networkRecords, settings, attributed>>

Next == GenerateTrace \/ AppendTask \/ AuditCall \/ AuditAwaitRecords \/ Audit

Spec == Init /\ [][Next]_vars

----------------------------------------------------------------------------
(* The audit in its two forms: filter-sort-slice and sort-filter-slice.     *)
(* The two forms are two versions of the audit's file, with the same two    *)
(* awaits; a run has loaded one of them.                                    *)

\* return {score: 1, details: tableDetails}
AuditProductSortFirst(results) ==
  [score   |-> 1,
   details |-> [type |-> "table", items |-> results]]

\* A call of the sort-first form is resumed with the network records, reads the
\* task array as it is now, and returns its product.
AuditSortFirst ==
  /\ version = "sortFirst"
  /\ inflight.awaitRecords > 0
  /\ inflight' = [inflight EXCEPT !.awaitRecords = @ - 1]
  /\ LET urls == getJavaScriptURLs(networkRecords)
         selected == SelectLongTasksSortFirst(tasks)
         results == Results(tasks, selected, urls)
         after == InputsAfterMap(tasks, selected, urls)
     IN  /\ jsURLs' = after.jsURLs
         /\ tasksRead' = tasks
         /\ tasks' = TasksAfter(LongTasksStatementSortFirst(tasks), after.tasks)
         /\ longtasks' = selected
         /\ product' = AuditProductSortFirst(results)
  /\ pc' = "auditedSortFirst"
  /\ UNCHANGED <<version, appended, networkRecords, settings, attributed>>

\* A run with either form of the audit loaded, called without settings.
InitPipelines ==
  /\ tasks = <<>>
  /\ version \in {"filterFirst", "sortFirst"}
  /\ inflight = NoCalls
  /\ tasksRead = <<>>
  /\ appended = 0
  /\ networkRecords \in NetworkRecordChoices
  /\ settings = Undefined
  /\ jsURLs = {}
  /\ longtasks = <<>>
  /\ product = Undefined
  /\ attributed = Undefined
  /\ pc = "trace"

NextPipelines ==
  \/ GenerateTrace \/ AppendTask \/ AuditCall \/ AuditAwaitRecords
  \/ Audit \/ AuditSortFirst

SpecPipelines == InitPipelines /\ [][NextPipelines]_vars

----------------------------------------------------------------------------
(* getAttributableURLForTask called on its own, on every small task *)

InitAttr ==
  /\ \E attributableURLs \in SeqsUpTo(URLs, MaxURLs), eventName \in EventNames :
       tasks = <<TaskNode(baseTs, 200, Undefined, <<FALSE>>, attributableURLs, eventName)>>
  /\ version = "none"
  /\ inflight = NoCalls
  /\ tasksRead = <<>>
  /\ appended = 0
  /\ networkRecords = <<>>
  /\ settings = Undefined
  /\ jsURLs \in SUBSET URLs
  /\ longtasks = <<>>
  /\ product = Undefined
  /\ attributed = Undefined
  /\ pc = "trace"

\* getAttributableURLForTask(task, jsURLs) is called on the task and the set at
\* hand, and returns.
Attribute ==
  /\ pc = "trace"
  /\ attributed' = <<getAttributableURLForTask(tasks[1], jsURLs)>>
  /\ LET after == InputsAfterAttribution(tasks[1], jsURLs)
     IN  /\ tasks' = <<after.task>>
         /\ jsURLs' = after.jsURLs
  /\ pc' = "attributed"
  /\ UNCHANGED <<version, inflight, tasksRead, appended, networkRecords, settings,
                 longtasks, product>>

NextAttr == Attribute

SpecAttr == InitAttr /\ [][NextAttr]_vars

----------------------------------------------------------------------------
(* Every caller: the audit in either form, and getAttributableURLForTask on  *)
(* its own (version "none": the run calls the function, not the audit).     *)

InitInputs == InitPipelines \/ InitAttr

NextInputs ==
  \/ (version # "none" /\ GenerateTrace)
  \/ (version # "none" /\ AppendTask)
  \/ (version # "none" /\ AuditCall)
  \/ (version # "none" /\ AuditAwaitRecords)
  \/ (version # "none" /\ Audit)
  \/ (version # "none" /\ AuditSortFirst)
  \/ (version = "none" /\ Attribute)

SpecInputs == InitInputs /\ [][NextInputs]_vars

----------------------------------------------------------------------------
(* What the claims speak of, stated on the inputs and the returned rows *)

Audited == pc = "audited"

Items == product.details.items

\* A task is identified by its start time: task i of a trace starts at baseTs * i.
TaskOfRow(row) == CHOOSE i \in DOMAIN tasksRead : tasksRead[i].startTime = row.start

\* Top-level, bounded, and at least 50 ms long.
Qualifies(i) ==
  /\ tasksRead[i].duration >= 50
  /\ tasksRead[i].unbounded # <<TRUE>>
  /\ tasksRead[i].parent = Undefined

Qualifying == {i \in DOMAIN tasksRead : Qualifies(i)}

Returned == {i \in DOMAIN tasksRead : \E k \in DOMAIN Items : Items[k].start = tasksRead[i].startTime}

Min(a, b) == IF a < b THEN a ELSE b

\* C1: every row of the audit is the row of an input task that is at least 50 ms
\* long, not flagged unbounded and without parent; a task that is shorter, nested
\* or unbounded yields no row.
C1_RowsAreLongTasks ==
  Audited =>
    /\ \A k \in DOMAIN Items :
         \E i \in DOMAIN tasksRead :
           /\ Items[k].start = tasksRead[i].startTime
           /\ Items[k].duration = tasksRead[i].duration
           /\ Items[k].duration >= 50
           /\ tasksRead[i].unbounded # <<TRUE>>
           /\ tasksRead[i].parent = Undefined
    /\ \A i \in DOMAIN tasksRead :
         (tasksRead[i].duration < 50 \/ tasksRead[i].parent # Undefined
            \/ tasksRead[i].unbounded = <<TRUE>>) => i \notin Returned

\* An audit that returned rows although the trace also held a short task and a
\* long task that is nested or unbounded.
C1_Witness ==
  /\ Audited
  /\ Items # <<>>
  /\ \E i \in DOMAIN tasksRead : tasksRead[i].duration < 50
  /\ \E i \in DOMAIN tasksRead :
       /\ tasksRead[i].duration >= 50
       /\ (tasksRead[i].parent # Undefined \/ tasksRead[i].unbounded = <<TRUE>>)

\* C2: with q qualifying tasks the audit returns min(20, q) rows, each of another
\* qualifying task; beyond 20, no qualifying task left out is longer than one
\* that is returned.
C2_CapAndLargest ==
  Audited =>
    /\ Len(Items) = Min(20, Cardinality(Qualifying))
    /\ \A k \in DOMAIN Items : \E i \in Qualifying : Items[k].start = tasksRead[i].startTime
    /\ \A k, l \in DOMAIN Items : k # l => Items[k].start # Items[l].start
    /\ \A i \in Returned, j \in Qualifying \ Returned :
         tasksRead[j].duration <= tasksRead[i].duration

\* More than 20 qualifying tasks, of which a late and longer one displaced an
\* earlier one from the 20 rows.
C2_Witness ==
  /\ Audited
  /\ Cardinality(Qualifying) > 20
  /\ Len(Items) = 20
  /\ \E i \in Returned, j \in Qualifying \ Returned :
       j < i /\ tasksRead[j].duration < tasksRead[i].duration

\* C3: the rows are ordered by duration, non-increasing.
C3_SortedDescending ==
  Audited =>
    \A k \in 1..(Len(Items) - 1) : Items[k].duration >= Items[k + 1].duration

\* Rows of different durations whose tasks came in the opposite order.
C3_Witness ==
  /\ Audited
  /\ \E k \in 1..(Len(Items) - 1) :
       /\ Items[k].duration > Items[k + 1].duration
       /\ Items[k].start > Items[k + 1].start

\* C9: rows of equal duration keep the order their tasks have in the input, and
\* of equally long tasks on either side of the cut at 20 the earlier are kept.
C9_TiesKeepInputOrder ==
  Audited =>
    /\ \A k, l \in DOMAIN Items :
         (k < l /\ Items[k].duration = Items[l].duration)
           => Items[k].start < Items[l].start
    /\ \A i \in Returned, j \in Qualifying \ Returned :
         tasksRead[i].duration = tasksRead[j].duration => i < j

\* Equally long tasks on either side of the cut, and rows behind a longer task
\* that came after them in the input.
C9_Witness ==
  /\ Audited
  /\ \E i \in Returned, j \in Qualifying \ Returned :
       tasksRead[i].duration = tasksRead[j].duration
  /\ \E k, l \in DOMAIN Items :
       k < l /\ l < Len(Items) /\ Items[k].start > Items[l].start
         /\ Items[l].duration = Items[l + 1].duration

Digits == <<"0", "1", "2", "3", "4", "5", "6", "7", "8", "9">>

RECURSIVE Decimal(_)
Decimal(n) ==
  IF n < 10 THEN Digits[n + 1] ELSE Decimal(n \div 10) \o Digits[(n % 10) + 1]

\* C6: the display value follows the number N of rows: none for N = 0,
\* "1 long task found" for N = 1, "N long tasks found" for N > 1.
C6_DisplayValue ==
  Audited =>
    LET N == Len(Items)
    IN  /\ N = 0 => product.displayValue = Undefined
        /\ N = 1 => product.displayValue = <<"1 long task found">>
        /\ N > 1 => product.displayValue = <<Decimal(N) \o " long tasks found">>

\* An audit of a trace with several tasks of which one is long.
C6_Witness ==
  /\ Audited
  /\ Len(tasksRead) > 1
  /\ Len(Items) = 1
  /\ product.displayValue = <<"1 long task found">>

\* C7: score 1 and notApplicable truthy without long tasks, score 0 and
\* notApplicable falsy with at least one.
C7_ScoreAndNotApplicable ==
  Audited =>
    /\ Len(Items) = 0 =>
         (product.score = 1 /\ TruthyBoolean(Get(product, "notApplicable")))
    /\ Len(Items) > 0 =>
         (product.score = 0 /\ ~TruthyBoolean(Get(product, "notApplicable")))

\* C8: under simulated throttling with CPU slowdown m, a top-level bounded task
\* whose duration times m reaches 50 ms is reported (as long as the cap of 20
\* allows), and every row has a duration of at least 50.
C8_ThrottledTasksReported ==
  (Audited /\ settings # Undefined /\ settings[1].throttlingMethod = "simulate") =>
    LET m == settings[1].throttling.cpuSlowdownMultiplier
        throttledLong ==
          {i \in DOMAIN tasksRead :
             /\ tasksRead[i].duration * m >= 50
             /\ tasksRead[i].unbounded # <<TRUE>>
             /\ tasksRead[i].parent = Undefined}
    IN  /\ Cardinality(throttledLong) <= 20 => throttledLong \subseteq Returned
        /\ \A k \in DOMAIN Items : Items[k].duration >= 50

\* A call of LongTasks.audit returns in this step.
AuditReturns == inflight'.awaitRecords < inflight.awaitRecords

\* A call of getAttributableURLForTask on its own returns in this step.
AttributionReturns == pc = "trace" /\ pc' = "attributed"

\* C10: LongTasks.audit and getAttributableURLForTask leave their inputs as they
\* were. When a call of the audit returns, the task array has the same elements
\* in the same order, every task has the fields it had, attributableURLs
\* included, and the script URL set is still the set built from the records;
\* when a call of getAttributableURLForTask returns, its task and its set are
\* what they were.
C10_InputsUnchanged ==
  [][/\ AuditReturns =>
          /\ tasks' = tasks
          /\ jsURLs' = getJavaScriptURLs(networkRecords)
     /\ AttributionReturns =>
          /\ tasks' = tasks
          /\ jsURLs' = jsURLs]_vars

\* An audit of the form that sorts first has put a late task in front of early
\* ones, among them tasks with a URL: its spread array was reordered.
C10_Witness ==
  /\ pc = "auditedSortFirst"
  /\ Len(tasksRead) > 1
  /\ \E k \in 1..(Len(Items) - 1) : Items[k].start > Items[k + 1].start
  /\ \E k \in DOMAIN Items : Items[k].url = TASK_URL

----------------------------------------------------------------------------
(* getAttributableURLForTask, stated on its argument and its result *)

Attributed == pc = "attributed"

CandidateURLs == tasks[1].attributableURLs

\* The positions of the candidate URLs that are known script URLs.
KnownAt == {k \in DOMAIN CandidateURLs : CandidateURLs[k] \in jsURLs}

FirstKnownAt == CHOOSE k \in KnownAt : \A l \in KnownAt : k <= l

\* C4 as stated: with a known script URL among the candidates the result is the
\* first of them; with candidates none of which is known, and the first not
\* about:blank, the result is the first candidate.
C4_FirstScriptElseFirst ==
  Attributed =>
    /\ KnownAt # {} => attributed = <<CandidateURLs[FirstKnownAt]>>
    /\ (CandidateURLs # <<>> /\ KnownAt = {} /\ CandidateURLs[1] # "about:blank")
         => attributed = <<CandidateURLs[1]>>

\* C4, amended: the same, for a first known script URL, respectively a first
\* candidate, that is neither the empty string nor about:blank.
C4_FirstScriptElseFirst_NonBlank ==
  Attributed =>
    /\ (KnownAt # {} /\ CandidateURLs[FirstKnownAt] \notin {"", "about:blank"})
         => attributed = <<CandidateURLs[FirstKnownAt]>>
    /\ (CandidateURLs # <<>> /\ KnownAt = {}
           /\ CandidateURLs[1] \notin {"", "about:blank"})
         => attributed = <<CandidateURLs[1]>>

\* A known script URL behind a URL that is no script, and behind it another
\* known script URL: the result is the first of the two.
C4_Witness ==
  /\ Attributed
  /\ Len(CandidateURLs) = 3
  /\ CandidateURLs[1] \notin jsURLs \cup {"", "about:blank"}
  /\ CandidateURLs[2] \in jsURLs \ {"", "about:blank"}
  /\ CandidateURLs[3] \in jsURLs \ {CandidateURLs[2]}
  /\ attributed = <<CandidateURLs[2]>>

\* The candidate C5 speaks of: the first known script URL, else the first entry.
ChosenCandidate ==
  IF KnownAt # {} THEN <<CandidateURLs[FirstKnownAt]>>
  ELSE IF CandidateURLs # <<>> THEN <<CandidateURLs[1]>>
  ELSE Undefined

\* C5: without a candidate, or with about:blank as the chosen candidate, the
\* event name alone decides: Browser for the profiler start, Browser GC for the
\* garbage collection events, Unattributable otherwise.
C5_EventNameDecides ==
  (Attributed /\ (ChosenCandidate = Undefined \/ ChosenCandidate = <<"about:blank">>)) =>
    LET name == tasks[1].event.name
    IN  attributed =
          << IF name = "CpuProfiler::StartProfiling" THEN "Browser"
             ELSE IF name \in {"V8.GCCompactor", "MajorGC", "MinorGC"} THEN "Browser GC"
             ELSE "Unattributable" >>

\* A garbage collection task whose candidates start with about:blank and go on
\* with a real URL.
C5_Witness ==
  /\ Attributed
  /\ Len(CandidateURLs) > 1
  /\ CandidateURLs[1] = "about:blank"
  /\ CandidateURLs[2] \notin {"", "about:blank"}
  /\ tasks[1].event.name = "MinorGC"
  /\ attributed = <<"Browser GC">>

\* C11: the result is a non-empty string other than about:blank, and it is one
\* of the task's candidate URLs or one of the labels Browser, Browser GC and
\* Unattributable, also with the empty string among the candidates or the
\* known script URLs.
C11_ResultIsCandidateOrLabel ==
  Attributed =>
    /\ Len(attributed) = 1
    /\ attributed[1] # ""
    /\ attributed[1] # "about:blank"
    /\ \/ \E k \in DOMAIN CandidateURLs : attributed[1] = CandidateURLs[k]
       \/ attributed[1] \in {"Browser", "Browser GC", "Unattributable"}

\* The empty string is the first known script URL, about:blank the first
\* candidate, and a real URL follows them: the result is a label.
C11_Witness ==
  /\ Attributed
  /\ Len(CandidateURLs) = 3
  /\ CandidateURLs[1] = "about:blank"
  /\ CandidateURLs[2] = ""
  /\ CandidateURLs[3] \notin {"", "about:blank"}
  /\ jsURLs = {""}
  /\ attributed[1] \in {"Browser", "Browser GC", "Unattributable"}

----------------------------------------------------------------------------
(* The two selection pipelines *)

UnboundedFlagsAreBoolean ==
  \A i \in DOMAIN tasksRead : tasksRead[i].unbounded \in {<<TRUE>>, <<FALSE>>}

\* C12: on a task list whose unbounded flags are all booleans, the audit that
\* filters, sorts and truncates selects the task sequence that sorting,
\* filtering with unbounded === false and truncating gives, and the other way
\* round.
C12_PipelinesAgree ==
  UnboundedFlagsAreBoolean =>
    /\ pc = "audited" => longtasks = SelectLongTasksSortFirst(tasksRead)
    /\ pc = "auditedSortFirst" => longtasks = SelectLongTasks(tasksRead)

\* The sort-first audit of more than 20 qualifying tasks, with an unbounded
\* task as long as the longest, and a late task selected first.
C12_Witness ==
  /\ pc = "auditedSortFirst"
  /\ UnboundedFlagsAreBoolean
  /\ Cardinality(Qualifying) > 20
  /\ Len(longtasks) = 20
  /\ longtasks[1] > 20
  /\ \E i \in DOMAIN tasksRead :
       /\ tasksRead[i].unbounded = <<TRUE>>
       /\ tasksRead[i].duration >= tasksRead[longtasks[1]].duration

====
